---- MODULE Spec2Model ----
(***************************************************************************)
(* django_api: the request/response validation decorators of               *)
(* django_api/decorators.py (api_accepts, api_returns, api,                *)
(* validate_json_request) and the JSON responses of django_api/json.py.    *)
(*                                                                         *)
(* A view function is decorated once, then serves requests one at a time.  *)
(* A request walks down the chain of wrappers to the view function and     *)
(* the response walks back up.  The view function itself is the            *)
(* environment: it may return any response.                                *)
(***************************************************************************)
EXTENDS Integers, Sequences, FiniteSets, TLC

VARIABLES
    DEBUG,       \* settings.DEBUG, the process-wide flag
    view,        \* the decorated view: which decorator, with which arguments
    pc,          \* "init", "idle", "call", "return", "done"
    request,     \* the request being served
    depth,       \* position in the chain of wrappers
    arg,         \* what the next callee is called with
    ret,         \* the value travelling back up
    calls,       \* how often the view function ran for this request
    handlerArg,  \* what the view function was called with
    handlerRet,  \* what the view function returned
    result,      \* what the outermost wrapper returned (or raised)
    log,         \* logger.warn calls made for this request
    trace,       \* the order of validate / invoke / check for this request
    effects      \* form validations and record lookups made for this request

vars == <<DEBUG, view, pc, request, depth, arg, ret, calls, handlerArg,
          handlerRet, result, log, trace, effects>>

-----------------------------------------------------------------------------
\* Bounds of the model.

\* Primary keys 1..MaxPk are named by requests (and -1, which no record has).
MaxPk == 1

\* The rows of each model's table: field_type.objects.
objects == [User |-> {1}, Course |-> {1}]

-----------------------------------------------------------------------------
\* Values.  Request parameters are strings (sequences of characters); cleaned
\* values are integers, None or model instances.  One record shape holds all.

Raw(s) == [kind |-> "str", n |-> 0, s |-> s]
Int_(n) == [kind |-> "int", n |-> n, s |-> <<>>]
None == [kind |-> "None", n |-> 0, s |-> <<>>]
Instance(model, pk) == [kind |-> model, n |-> pk, s |-> <<>>]

Empty == [k \in {} |-> None]

DigitChars == <<"0", "1", "2", "3", "4", "5", "6", "7", "8", "9">>

IsDigit(c) == \E i \in 1..10 : DigitChars[i] = c

DigitVal(c) == (CHOOSE i \in 1..10 : DigitChars[i] = c) - 1

\* str(n) for the small integers requests carry.
Str(n) ==
    IF n < 0 THEN <<"-", DigitChars[(-n) + 1]>>
    ELSE IF n < 10 THEN <<DigitChars[n + 1]>>
    ELSE <<DigitChars[(n \div 10) + 1], DigitChars[(n % 10) + 1]>>

RECURSIVE DigitsVal(_)
DigitsVal(s) ==
    IF s = <<>> THEN 0
    ELSE 10 * DigitsVal(SubSeq(s, 1, Len(s) - 1)) + DigitVal(s[Len(s)])

AllDigits(s) == s /= <<>> /\ \A i \in 1..Len(s) : IsDigit(s[i])

\* Python's int(s) on a string: an optional sign and at least one digit;
\* anything else raises ValueError.
IntParses(s) ==
    IF s /= <<>> /\ s[1] = "-" THEN AllDigits(Tail(s)) ELSE AllDigits(s)

IntOf(s) ==
    IF s[1] = "-" THEN 0 - DigitsVal(Tail(s)) ELSE DigitsVal(s)

-----------------------------------------------------------------------------
\* Responses (django_api/json.py).  made_by tells the objects apart: a
\* response the view function built is not the one a decorator built, even
\* with the same status code.  raised marks an exception leaving the wrapper.

Content(msg, names, numbers) ==
    [msg |-> msg, names |-> names, numbers |-> numbers]

NoContent == Content("", {}, {})

Response(class, status_code, json, made_by, content) ==
    [class |-> class, status_code |-> status_code, json |-> json,
     made_by |-> made_by, content |-> content, raised |-> FALSE]

JsonResponseBadRequest(made_by, content) ==
    Response("JsonResponseBadRequest", 400, TRUE, made_by, content)

JsonResponseNotFound(made_by, content) ==
    Response("JsonResponseNotFound", 404, TRUE, made_by, content)

Raise(class, made_by, content) ==
    [class |-> class, status_code |-> 0, json |-> FALSE,
     made_by |-> made_by, content |-> content, raised |-> TRUE]

NoResponse == Response("", 0, FALSE, "", NoContent)

\* What a view function may return: JSON responses of several status codes
\* and plain HttpResponse objects that are not JSON responses.
ViewResponses ==
    { Response("JsonResponse", 200, TRUE, "view", NoContent),
      Response("JsonResponseAccepted", 202, TRUE, "view", NoContent),
      Response("JsonResponseForbidden", 403, TRUE, "view", NoContent),
      Response("JsonResponseError", 500, TRUE, "view", NoContent),
      Response("HttpResponse", 200, FALSE, "view", NoContent),
      Response("HttpResponseServerError", 500, FALSE, "view", NoContent) }

\* isinstance(return_value, JsonResponse)
IsJsonResponse(r) == r.json

-----------------------------------------------------------------------------
\* Field schemas: the 'fields' dict given to api_accepts, as the sequence of
\* its items in the dict's iteration order.

IntegerField(required, min_value) ==
    [type |-> "IntegerField", required |-> required, min_value |-> min_value,
     model |-> ""]

Model(model) ==
    [type |-> "Model", required |-> FALSE, min_value |-> {}, model |-> model]

Item(name, field) == [name |-> name, field |-> field]

\* forms.IntegerField(), forms.IntegerField(required=False) and
\* forms.IntegerField(min_value=0), as the tests and docstrings declare them.
FormFieldChoices ==
    { <<>>,
      <<Item("x", IntegerField(TRUE, {}))>>,
      <<Item("x", IntegerField(FALSE, {}))>>,
      <<Item("x", IntegerField(TRUE, {0}))>> }

ModelFieldChoices ==
    { <<>>,
      <<Item("user", Model("User"))>>,
      <<Item("course", Model("Course"))>>,
      <<Item("user", Model("User")), Item("course", Model("Course"))>>,
      <<Item("course", Model("Course")), Item("user", Model("User"))>> }

Schemas == { f \o m : f \in FormFieldChoices, m \in ModelFieldChoices }

Names(fields) == { fields[i].name : i \in 1..Len(fields) }

FieldOf(fields, name) ==
    fields[CHOOSE i \in 1..Len(fields) : fields[i].name = name].field

\* type('ApiForm', (forms.Form,), fields.copy()): the form's fields are the
\* entries that are form fields; a model instance is only a class attribute.
FormFieldNames(fields) ==
    { n \in Names(fields) : FieldOf(fields, n).type = "IntegerField" }

-----------------------------------------------------------------------------
\* Requests.

HttpRequest(method, get, post, raw_post_data) ==
    [method |-> method, GET |-> get, POST |-> post,
     raw_post_data |-> raw_post_data]

NoRequest == HttpRequest("", Empty, Empty, <<>>)

\* request.REQUEST: POST first, then GET.
InREQUEST(req, key) == key \in DOMAIN req.POST \/ key \in DOMAIN req.GET

REQUEST(req, key) ==
    IF key \in DOMAIN req.POST THEN req.POST[key] ELSE req.GET[key]

\* The plain request object, and the ValidatedRequest wrapper around it.
Plain(req) ==
    [class |-> "HttpRequest", orig_request |-> req, cleaned_data |-> Empty]

ValidatedRequest(orig_request, cleaned_data) ==
    [class |-> "ValidatedRequest", orig_request |-> orig_request,
     cleaned_data |-> cleaned_data]

\* A wrapper that forgets to replace GET and POST.
getattr_orig(obj, name) == obj.orig_request[name]

\* Attribute access on what the view function receives.
getattr(obj, name) ==
    IF obj.class = "ValidatedRequest" /\ name \in {"GET", "POST"}
    THEN obj.cleaned_data
    ELSE obj.orig_request[name]

-----------------------------------------------------------------------------
\* Django form validation of the declared form fields.

Absent(data, name) == name \notin DOMAIN data

\* None and '' are the empty values.
IsEmptyValue(data, name) == Absent(data, name) \/ data[name].s = <<>>

\* forms.IntegerField.clean: to_python, validate, run_validators.
FieldValid(field, data, name) ==
    IF IsEmptyValue(data, name) THEN ~field.required
    ELSE /\ IntParses(data[name].s)
         /\ \A m \in field.min_value : IntOf(data[name].s) >= m

FieldClean(field, data, name) ==
    IF IsEmptyValue(data, name) THEN None ELSE Int_(IntOf(data[name].s))

form_errors(fields, data) ==
    { n \in FormFieldNames(fields) : ~FieldValid(FieldOf(fields, n), data, n) }

is_valid(fields, data) == form_errors(fields, data) = {}

cleaned_data(fields, data) ==
    [n \in FormFieldNames(fields) |-> FieldClean(FieldOf(fields, n), data, n)]

-----------------------------------------------------------------------------
\* What a wrapper does before it hands over: call the wrapped function with
\* an argument list, return a response, or raise.

Args(obj, args) == [request |-> obj, args |-> args]

NoArgs == Args(Plain(NoRequest), <<>>)

Call(a, warns) ==
    [do |-> "call", arg |-> a, response |-> NoResponse, warns |-> warns,
     did |-> <<>>]

Return(response) ==
    [do |-> "return", arg |-> NoArgs, response |-> response, warns |-> <<>>,
     did |-> <<>>]

\* The wrapper first did these things (a form validation, a record lookup),
\* then went on to outcome o.
Did(events, o) == [o EXCEPT !.did = events \o @]

\* The flag as it was when the decorator was applied.
StrictAtDecoration == view.debug

\* settings.DEBUG, read inside the wrappers each time a check fails.
Strict == DEBUG

-----------------------------------------------------------------------------
\* api_accepts

\* The form did not validate, and the wrapper never refuses.
api_accepts_invalid_lenient(fields, a) ==
    Call(a, <<"input failed to validate">>)

\* The form did not validate, and the lenient branch hands over the wrapper.
api_accepts_invalid_wrapped(fields, a) ==
    LET req == a.request.orig_request
        errors == form_errors(fields, req[req.method])
    IN  IF DEBUG
        THEN Return(JsonResponseBadRequest("api_accepts",
                        Content("failed to validate", errors, {})))
        ELSE Call(Args(ValidatedRequest(req, Empty), a.args),
                  <<"input failed to validate">>)

\* The form did not validate.
api_accepts_invalid(fields, a) ==
    LET req == a.request.orig_request
        errors == form_errors(fields, req[req.method])
    IN  IF Strict
        THEN Return(JsonResponseBadRequest("api_accepts",
                        Content("failed to validate", errors, {})))
        ELSE Call(a, <<"input failed to validate">>)

\* No record has the primary key, reported as a bad request.
DoesNotExist_bad_request(model, field_pk) ==
    Return(JsonResponseBadRequest("api_accepts",
               Content("does not exist", {model}, {field_pk})))

\* No record has the primary key.
DoesNotExist(model, field_pk) ==
    Return(JsonResponseNotFound("api_accepts",
               Content("does not exist", {model}, {field_pk})))

\* The loop over fields.items(): every model entry is looked up by the
\* primary key the request gives as '<name>-id'.
RECURSIVE clean_models(_, _, _, _)
clean_models(fields, i, a, cleaned) ==
    LET req == a.request.orig_request IN
    IF i > Len(fields)
    THEN Call(Args(ValidatedRequest(req, cleaned), a.args), <<>>)
    ELSE IF fields[i].field.type /= "Model"
    THEN clean_models(fields, i + 1, a, cleaned)
    ELSE
        LET field_name == fields[i].name
            field_type == fields[i].field.model
            field_id == field_name \o "-id"
        IN  IF ~InREQUEST(req, field_id)
            THEN Return(JsonResponseBadRequest("api_accepts",
                            Content("field not present", {field_name}, {})))
            ELSE IF ~IntParses(REQUEST(req, field_id).s)
            THEN Return(Raise("ValueError", "api_accepts",
                            Content("invalid literal for int()", {field_id}, {})))
            ELSE
                LET field_pk == IntOf(REQUEST(req, field_id).s) IN
                Did(<<field_type \o ".objects.get">>,
                    IF field_pk \notin objects[field_type]
                    THEN DoesNotExist(field_type, field_pk)
                    ELSE clean_models(fields, i + 1, a,
                             (field_name :> Instance(field_type, field_pk))
                                 @@ cleaned))

\* A wrapper without the test of the method: every request is validated,
\* against its query string when it is neither GET nor POST.
api_accepts_every_method(fields, a) ==
    LET req == a.request.orig_request
        data == IF req.method = "POST" THEN req.POST ELSE req.GET
    IN  Did(<<"form.is_valid">>,
            IF ~is_valid(fields, data)
            THEN IF DEBUG
                 THEN Return(JsonResponseBadRequest("api_accepts",
                          Content("failed to validate",
                                  form_errors(fields, data), {})))
                 ELSE Call(a, <<"input failed to validate">>)
            ELSE clean_models(fields, 1, a, cleaned_data(fields, data)))

\* wrapped_func of api_accepts, up to the call of the wrapped function.
api_accepts(fields, a) ==
    LET req == a.request.orig_request IN
    IF req.method \notin {"GET", "POST"}
    THEN Call(a, <<>>)
    ELSE Did(<<"form.is_valid">>,
             IF ~is_valid(fields, req[req.method])
             THEN api_accepts_invalid(fields, a)
             ELSE clean_models(fields, 1, a,
                      cleaned_data(fields, req[req.method])))

-----------------------------------------------------------------------------
\* api_returns

\* return_values.keys(), then append(500).
accepted_return_codes(return_values) == return_values \cup {500}

AlwaysBlocks == TRUE

NeverBlocks == FALSE

\* The returned object is not a JSON response: refuse it, or only warn.
NotJsonBlocks == Strict

\* The status code is not an accepted one: refuse it, or only warn.
BadCodeBlocks == Strict

\* wrapped_func of api_returns, after the wrapped function has returned.
api_returns(return_values, return_value) ==
    IF ~IsJsonResponse(return_value) /\ NotJsonBlocks
    THEN [response |-> JsonResponseBadRequest("api_returns",
                           Content("API did not return JSON", {}, {})),
          warns |-> <<>>]
    ELSE
        LET w1 == IF ~IsJsonResponse(return_value)
                  THEN <<"API did not return JSON">> ELSE <<>>
        IN  IF return_value.status_code
                   \notin accepted_return_codes(return_values)
            THEN IF BadCodeBlocks
                 THEN [response |-> JsonResponseBadRequest("api_returns",
                           Content("API returned unacceptable value", {},
                                   {return_value.status_code})),
                       warns |-> w1]
                 ELSE [response |-> return_value,
                       warns |-> w1 \o <<"API returned unacceptable value">>]
            ELSE [response |-> return_value, warns |-> w1]

-----------------------------------------------------------------------------
\* validate_json_request

\* A request body is a sequence of JSON tokens: punctuation, string
\* literals (written without their quotes) and number literals.
StringTokens == {"name", "date", "a"}

NumberTokens == {"5"}

IsScalarToken(t) == t \in StringTokens \cup NumberTokens

Chars(t) ==
    CASE t = "name" -> <<"n", "a", "m", "e">>
      [] t = "date" -> <<"d", "a", "t", "e">>
      [] t = "a" -> <<"a">>
      [] OTHER -> <<>>

JsonValue(jtype, dict, list, str, n) ==
    [jtype |-> jtype, dict |-> dict, list |-> list, str |-> str, n |-> n]

Scalar(t) ==
    IF t \in StringTokens
    THEN JsonValue("string", <<>>, <<>>, t, 0)
    ELSE JsonValue("number", <<>>, <<>>, "", DigitsVal(<<t>>))

Inner(toks) == SubSeq(toks, 2, Len(toks) - 1)

IsObjectText(toks) ==
    /\ Len(toks) >= 2 /\ toks[1] = "{" /\ toks[Len(toks)] = "}"
    /\ LET in == Inner(toks) IN
       \/ in = <<>>
       \/ /\ Len(in) % 4 = 3
          /\ \A j \in 1..Len(in) :
                CASE j % 4 = 1 -> in[j] \in StringTokens
                  [] j % 4 = 2 -> in[j] = ":"
                  [] j % 4 = 3 -> IsScalarToken(in[j])
                  [] OTHER -> in[j] = ","

IsArrayText(toks) ==
    /\ Len(toks) >= 2 /\ toks[1] = "[" /\ toks[Len(toks)] = "]"
    /\ LET in == Inner(toks) IN
       \/ in = <<>>
       \/ /\ Len(in) % 2 = 1
          /\ \A j \in 1..Len(in) :
                IF j % 2 = 1 THEN IsScalarToken(in[j]) ELSE in[j] = ","

\* simplejson.loads raises ValueError on these.
LoadsFails(toks) ==
    ~ \/ (Len(toks) = 1 /\ IsScalarToken(toks[1]))
      \/ IsObjectText(toks)
      \/ IsArrayText(toks)

\* simplejson.loads: a later duplicate of a key wins.
loads(toks) ==
    IF Len(toks) = 1 THEN Scalar(toks[1])
    ELSE LET in == Inner(toks) IN
         IF toks[1] = "{"
         THEN LET keyAt == { j \in 1..Len(in) : j % 4 = 1 }
                  last(k) == CHOOSE j \in keyAt :
                                /\ in[j] = k
                                /\ \A h \in keyAt : in[h] = k => h <= j
              IN  JsonValue("object",
                      [k \in { in[j] : j \in keyAt } |-> Scalar(in[last(k) + 2])],
                      <<>>, "", 0)
         ELSE JsonValue("array", <<>>,
                  [j \in 1..((Len(in) + 1) \div 2) |-> Scalar(in[2 * j - 1])],
                  "", 0)

IsSubstring(a, b) ==
    \E i \in 0..(Len(b) - Len(a)) : SubSeq(b, i + 1, i + Len(a)) = a

\* 'k in request_dict' has no meaning for a number: Python raises TypeError.
InRaises(request_dict) == request_dict.jtype \notin {"object", "array", "string"}

\* 'k in request_dict': a key of a dict, an element of a list, a substring
\* of a string.
In(k, request_dict) ==
    CASE request_dict.jtype = "object" -> k \in DOMAIN request_dict.dict
      [] request_dict.jtype = "array" ->
            \E j \in 1..Len(request_dict.list) :
                /\ request_dict.list[j].jtype = "string"
                /\ request_dict.list[j].str = k
      [] OTHER -> IsSubstring(Chars(k), Chars(request_dict.str))

\* The loop over required_fields, from its i-th element.
RECURSIVE check_required(_, _, _, _)
check_required(required_fields, i, request_dict, a) ==
    IF i > Len(required_fields)
    THEN Call(Args(a.request, <<request_dict>> \o a.args), <<>>)
    ELSE IF InRaises(request_dict)
    THEN Return(Raise("TypeError", "validate_json_request",
                    Content("argument is not iterable", {}, {})))
    ELSE IF ~In(required_fields[i], request_dict)
    THEN Return(JsonResponseBadRequest("validate_json_request",
                    Content("POST JSON must contain property",
                            {required_fields[i]}, {})))
    ELSE check_required(required_fields, i + 1, request_dict, a)

\* wrapped_func of validate_json_request, up to the call of the wrapped
\* function.
validate_json_request(required_fields, a) ==
    LET raw == a.request.orig_request.raw_post_data IN
    IF LoadsFails(raw)
    THEN Return(JsonResponseBadRequest("validate_json_request",
                    Content("invalid POST JSON", {}, {})))
    ELSE check_required(required_fields, 1, loads(raw), a)

-----------------------------------------------------------------------------
\* The decorated view.

View(kind, fields, return_values, required_fields, debug) ==
    [kind |-> kind, fields |-> fields, return_values |-> return_values,
     required_fields |-> required_fields, debug |-> debug]

NoView == View("", <<>>, {}, <<>>, FALSE)

\* The return-code contracts given to api_returns: the keys of the dict.
ReturnContracts == { {200, 403}, {202, 500} }

\* The required fields given to validate_json_request, in iteration order.
RequiredFieldChoices ==
    { <<>>, <<"name">>, <<"date">>, <<"name", "date">>, <<"date", "name">> }

\* The two decorators applied in the other order.
ApiChain_swapped == <<"api", "api_returns", "api_accepts", "func">>

\* api's wrapped_func decorates apid_fnc with api_returns, then api_accepts:
\* api_accepts is the outer wrapper.
ApiChain == <<"api", "api_accepts", "api_returns", "func">>

\* The wrappers a request goes through, outermost first, down to the view
\* function.
Chain(kind) ==
    CASE kind = "api_accepts" -> <<"api_accepts", "func">>
      [] kind = "api_returns" -> <<"api_returns", "func">>
      [] kind = "validate_json_request" -> <<"validate_json_request", "func">>
      [] kind = "api" -> ApiChain
      [] OTHER -> <<>>

Callee == Chain(view.kind)[depth]

-----------------------------------------------------------------------------
\* The requests the model sends.

\* Values of the parameter 'x': empty, not a number, negative, two digits,
\* and the small positive numbers.
XValues ==
    { Raw(<<>>), Raw(<<"a">>), Raw(Str(-1)), Raw(Str(10)) }
        \cup { Raw(Str(n)) : n \in 1..MaxPk }

\* Values of 'user-id': not a number, and primary keys with and without a
\* record.
UserIdValues == { Raw(<<"a">>), Raw(Str(-1)) } \cup { Raw(Str(n)) : n \in 1..MaxPk }

CourseIdValues == { Raw(Str(-1)) } \cup { Raw(Str(n)) : n \in 1..MaxPk }

ParamValues(key) ==
    CASE key = "x" -> XValues
      [] key = "user-id" -> UserIdValues
      [] OTHER -> CourseIdValues

IdKeys == {"user-id", "course-id"}

ParamKeys == {"x"} \cup IdKeys

ParamMaps ==
    UNION { { m \in [D -> XValues \cup UserIdValues] :
                \A k \in D : m[k] \in ParamValues(k) } : D \in SUBSET ParamKeys }

Restrict(m, keys) == [k \in DOMAIN m \cap keys |-> m[k]]

\* GET requests with a query string, POST requests with a form body, POST
\* requests with the ids in the query string, and PUT requests.
ParamRequests ==
    { HttpRequest("GET", m, Empty, <<>>) : m \in ParamMaps }
        \cup { HttpRequest("POST", Empty, m, <<>>) : m \in ParamMaps }
        \cup { HttpRequest("POST", Restrict(m, IdKeys), Restrict(m, {"x"}), <<>>) :
                   m \in { p \in ParamMaps : DOMAIN p \cap IdKeys /= {} } }
        \cup { HttpRequest("PUT", m, Empty, <<>>) : m \in ParamMaps }

RawBodies ==
    { <<>>,
      <<"{", "name", ":">>,
      <<"{", "}">>,
      <<"{", "name", ":", "a", "}">>,
      <<"{", "date", ":", "5", "}">>,
      <<"{", "name", ":", "a", ",", "date", ":", "5", "}">>,
      <<"{", "name", ":", "a", ",", "name", ":", "5", "}">>,
      <<"5">>,
      <<"name">>,
      <<"[", "name", ",", "date", "]">> }

JsonRequests == { HttpRequest("POST", Empty, Empty, b) : b \in RawBodies }

PlainRequests ==
    { HttpRequest("GET", Empty, Empty, <<>>),
      HttpRequest("POST", Empty, Empty, <<>>) }

RequestsFor(kind) ==
    CASE kind = "validate_json_request" -> JsonRequests
      [] kind = "api_returns" -> PlainRequests
      [] OTHER -> ParamRequests

-----------------------------------------------------------------------------
\* The state machine.

Init ==
    /\ DEBUG \in BOOLEAN
    /\ view = NoView
    /\ pc = "init"
    /\ request = NoRequest
    /\ depth = 0
    /\ arg = NoArgs
    /\ ret = NoResponse
    /\ calls = 0
    /\ handlerArg = NoArgs
    /\ handlerRet = NoResponse
    /\ result = NoResponse
    /\ log = <<>>
    /\ trace = <<>>
    /\ effects = <<>>

perRequest == <<request, depth, arg, ret, calls, handlerArg, handlerRet,
                result, log, trace, effects>>

\* @api_accepts(fields) applied to a view function.
decorate_api_accepts ==
    /\ pc = "init"
    /\ \E fields \in Schemas :
          view' = View("api_accepts", fields, {}, <<>>, DEBUG)
    /\ pc' = "idle"
    /\ UNCHANGED <<DEBUG, perRequest>>

\* @api_returns(return_values) applied to a view function.
decorate_api_returns ==
    /\ pc = "init"
    /\ \E return_values \in ReturnContracts :
          view' = View("api_returns", <<>>, return_values, <<>>, DEBUG)
    /\ pc' = "idle"
    /\ UNCHANGED <<DEBUG, perRequest>>

\* @api({'accepts': ..., 'returns': ...}) applied to a view function.
decorate_api ==
    /\ pc = "init"
    /\ \E fields \in Schemas, return_values \in ReturnContracts :
          view' = View("api", fields, return_values, <<>>, DEBUG)
    /\ pc' = "idle"
    /\ UNCHANGED <<DEBUG, perRequest>>

\* @validate_json_request(required_fields) applied to a view function.
decorate_validate_json_request ==
    /\ pc = "init"
    /\ \E required_fields \in RequiredFieldChoices :
          view' = View("validate_json_request", <<>>, {}, required_fields, DEBUG)
    /\ pc' = "idle"
    /\ UNCHANGED <<DEBUG, perRequest>>

\* settings.DEBUG is overridden between two requests.
override_settings ==
    /\ pc = "idle"
    /\ DEBUG' = ~DEBUG
    /\ UNCHANGED <<view, pc, perRequest>>

\* The framework calls the decorated view with a request.
receive ==
    /\ pc = "idle"
    /\ \E req \in RequestsFor(view.kind) :
          /\ request' = req
          /\ arg' = Args(Plain(req), <<>>)
    /\ pc' = "call"
    /\ depth' = 1
    /\ UNCHANGED <<DEBUG, view, ret, calls, handlerArg, handlerRet, result,
                   log, trace, effects>>

\* What a wrapper's entry part decided: go one level down, or return.
Enter(o) ==
    /\ log' = log \o o.warns
    /\ trace' = Append(trace, Callee)
    /\ effects' = effects \o o.did
    /\ IF o.do = "call"
       THEN /\ arg' = o.arg
            /\ depth' = depth + 1
            /\ pc' = "call"
            /\ ret' = ret
       ELSE /\ ret' = o.response
            /\ depth' = depth - 1
            /\ pc' = "return"
            /\ arg' = arg
    /\ UNCHANGED <<DEBUG, view, request, calls, handlerArg, handlerRet, result>>

\* api's wrapped_func: builds apid_fnc and calls it.
api_call ==
    /\ pc = "call" /\ Callee = "api"
    /\ Enter(Call(arg, <<>>))

api_accepts_call ==
    /\ pc = "call" /\ Callee = "api_accepts"
    /\ Enter(api_accepts(view.fields, arg))

\* api_returns' wrapped_func first calls the wrapped function.
api_returns_call ==
    /\ pc = "call" /\ Callee = "api_returns"
    /\ Enter(Call(arg, <<>>))

validate_json_request_call ==
    /\ pc = "call" /\ Callee = "validate_json_request"
    /\ Enter(validate_json_request(view.required_fields, arg))

\* The view function runs and returns some response.
func_call ==
    /\ pc = "call" /\ Callee = "func"
    /\ \E r \in ViewResponses :
          /\ handlerRet' = r
          /\ ret' = r
    /\ handlerArg' = arg
    /\ calls' = calls + 1
    /\ trace' = Append(trace, "func")
    /\ depth' = depth - 1
    /\ pc' = "return"
    /\ UNCHANGED <<DEBUG, view, request, arg, result, log, effects>>

\* The frames still on the stack that are api_returns': their wrapped_func
\* goes on after the call.
PendingChecks == { d \in 1..depth : Chain(view.kind)[d] = "api_returns" }

\* The value has returned into api_returns (through any 'return func(...)'
\* in between), which checks it.
api_returns_return ==
    /\ pc = "return" /\ PendingChecks /= {}
    /\ LET o == api_returns(view.return_values, ret)
           d == CHOOSE e \in PendingChecks : \A f \in PendingChecks : f <= e
       IN  /\ ret' = o.response
           /\ log' = log \o o.warns
           /\ depth' = d - 1
    /\ trace' = Append(trace, "api_returns:check")
    /\ UNCHANGED <<DEBUG, view, pc, request, arg, calls, handlerArg,
                   handlerRet, result, effects>>

\* Every wrapper still on the stack ends with 'return func(...)': the value
\* reaches the framework as it is.
tail_return ==
    /\ pc = "return"
    /\ PendingChecks = {}
    /\ result' = ret
    /\ depth' = 0
    /\ pc' = "done"
    /\ UNCHANGED <<DEBUG, view, request, arg, ret, calls, handlerArg,
                   handlerRet, log, trace, effects>>

\* The framework has the response; the view waits for the next request.
respond ==
    /\ pc = "done"
    /\ pc' = "idle"
    /\ request' = NoRequest
    /\ depth' = 0
    /\ arg' = NoArgs
    /\ ret' = NoResponse
    /\ calls' = 0
    /\ handlerArg' = NoArgs
    /\ handlerRet' = NoResponse
    /\ result' = NoResponse
    /\ log' = <<>>
    /\ trace' = <<>>
    /\ effects' = <<>>
    /\ UNCHANGED <<DEBUG, view>>

Next ==
    \/ decorate_api_accepts
    \/ decorate_api_returns
    \/ decorate_api
    \/ decorate_validate_json_request
    \/ override_settings
    \/ receive
    \/ api_call
    \/ api_accepts_call
    \/ api_returns_call
    \/ validate_json_request_call
    \/ func_call
    \/ api_returns_return
    \/ tail_return
    \/ respond

Spec == Init /\ [][Next]_vars

-----------------------------------------------------------------------------
\* Vocabulary of the properties.

Serving == pc \in {"call", "return", "done"}

Done == pc = "done"

\* The request carries parameters that api_accepts validates.
HasParams == request.method \in {"GET", "POST"}

Data == request[request.method]

\* The parameters violate the schema: the form built from it does not
\* validate them.
Violates == HasParams /\ ~is_valid(view.fields, Data)

ModelItems == { i \in 1..Len(view.fields) : view.fields[i].field.type = "Model" }

IdKey(i) == view.fields[i].name \o "-id"

\* The i-th item's '<name>-id' parameter is there and is an integer.
NamesPk(i) ==
    /\ InREQUEST(request, IdKey(i))
    /\ IntParses(REQUEST(request, IdKey(i)).s)

PkOf(i) == IntOf(REQUEST(request, IdKey(i)).s)

Resolves(i) == NamesPk(i) /\ PkOf(i) \in objects[view.fields[i].field.model]

NoRecord(i) == NamesPk(i) /\ PkOf(i) \notin objects[view.fields[i].field.model]

\* The parameters satisfy the schema: the form validates and every record
\* reference resolves.
Satisfies ==
    /\ HasParams
    /\ is_valid(view.fields, Data)
    /\ \A i \in ModelItems : Resolves(i)

\* The cleaned mapping the schema promises: per declared field its coerced
\* value, per reference field its record.
ExpectedCleaned ==
    [n \in Names(view.fields) |->
        LET i == CHOOSE j \in 1..Len(view.fields) : view.fields[j].name = n IN
        IF i \in ModelItems THEN Instance(view.fields[i].field.model, PkOf(i))
        ELSE IF n \notin DOMAIN Data \/ Data[n] = Raw(<<>>) THEN None
        ELSE Int_(IntOf(Data[n].s))]

IsClientError(r) ==
    /\ ~r.raised /\ r.status_code = 400 /\ r.json /\ r.made_by /= "view"

-----------------------------------------------------------------------------
C3_ValidatedViewIsCleaned ==
    (view.kind = "api_accepts" /\ Done /\ Satisfies) =>
        /\ calls = 1
        /\ getattr(handlerArg.request, "GET") = ExpectedCleaned
        /\ getattr(handlerArg.request, "POST") = ExpectedCleaned
        /\ DOMAIN getattr(handlerArg.request, "GET") = Names(view.fields)
        /\ \A n \in Names(view.fields) :
              getattr(handlerArg.request, "GET")[n].kind /= "str"
        /\ getattr(handlerArg.request, "method") = request.method
        /\ result = handlerRet

C3_Witness ==
    /\ view.kind = "api_accepts" /\ Done /\ Satisfies
    /\ Len(view.fields) = 3
    /\ request.method = "POST"
    /\ DOMAIN request.GET /= {}
    /\ calls = 1
    /\ getattr(handlerArg.request, "POST")["x"] = Int_(10)
    /\ getattr(handlerArg.request, "POST")["user"] = Instance("User", 1)

\* C4 (as stated): for a schema with a record-reference field and a GET or
\* POST request whose '<field>-id' names a primary key with no record, the
\* result of api_accepts is always a 404 response and the view function is
\* not invoked, in both modes.
C4_Original ==
    (view.kind = "api_accepts" /\ Done /\ HasParams
        /\ \E i \in ModelItems : NoRecord(i)) =>
        /\ calls = 0
        /\ ~result.raised /\ result.status_code = 404

\* The first reference field, in the schema's iteration order, that does
\* not resolve to a record.
FirstUnresolved(i) ==
    /\ i \in ModelItems
    /\ ~Resolves(i)
    /\ \A j \in ModelItems : j < i => Resolves(j)

\* C4 (amended): when moreover the request passes form validation and that
\* field is the first reference field that does not resolve, the result of
\* api_accepts is a 404 response built by the wrapper, naming the primary
\* key, and the view function is not invoked, in both modes.
C4_MissingRecordIsNotFound ==
    (view.kind = "api_accepts" /\ Done /\ HasParams
        /\ is_valid(view.fields, Data)
        /\ \E i \in ModelItems : FirstUnresolved(i) /\ NoRecord(i)) =>
        /\ calls = 0
        /\ ~result.raised /\ result.status_code = 404
        /\ result.made_by = "api_accepts"
        /\ \E i \in ModelItems :
              /\ FirstUnresolved(i)
              /\ result.content.numbers = {PkOf(i)}

C4_Witness ==
    /\ view.kind = "api_accepts" /\ Done /\ ~DEBUG
    /\ request.method = "GET"
    /\ view.fields = <<Item("x", IntegerField(TRUE, {})),
                       Item("course", Model("Course")),
                       Item("user", Model("User"))>>
    /\ is_valid(view.fields, Data)
    /\ Resolves(2) /\ NoRecord(3)
    /\ result.status_code = 404
    /\ calls = 0

\* The status code is one the contract accepts.
InContract(r) == r.status_code \in view.return_values

\* C5: in strict mode, when the view function wrapped by api_returns returns
\* a JSON response: if its status code is in the contract, api_returns
\* returns that same response; if it is not and is not 500, api_returns
\* returns a 400 response of its own instead.
C5_StrictContract ==
    (view.kind = "api_returns" /\ Done /\ DEBUG /\ handlerRet.json) =>
        /\ calls = 1
        /\ InContract(handlerRet) => result = handlerRet
        /\ (~InContract(handlerRet) /\ handlerRet.status_code /= 500) =>
              /\ IsClientError(result)
              /\ result.made_by = "api_returns"
              /\ result /= handlerRet

C5_Witness ==
    /\ view.kind = "api_returns" /\ Done /\ DEBUG
    /\ view.return_values = {200, 403}
    /\ handlerRet.class = "JsonResponseAccepted"
    /\ result.status_code = 400

\* The contract is violated: not a JSON response, or a status code that is
\* neither in the contract nor 500.
ContractViolated(r) ==
    \/ ~r.json
    \/ (~InContract(r) /\ r.status_code /= 500)

\* C6: in lenient mode, whatever response the view function returns (any
\* status code, JSON response or not), api_returns returns exactly that
\* response; a violation only adds logged warnings.
C6_LenientPassesThrough ==
    (view.kind = "api_returns" /\ Done /\ ~DEBUG) =>
        /\ calls = 1
        /\ result = handlerRet
        /\ (log /= <<>>) <=> ContractViolated(handlerRet)

C6_Witness ==
    /\ view.kind = "api_returns" /\ Done /\ ~DEBUG
    /\ view.return_values = {202, 500}
    /\ handlerRet.class = "HttpResponse"
    /\ result = handlerRet
    /\ Len(log) = 2

\* C7: whenever the view function's response has status code 500,
\* api_returns returns that response unchanged, for every contract and in
\* both modes.
C7_ServerErrorPassesThrough ==
    (view.kind = "api_returns" /\ Done /\ handlerRet.status_code = 500) =>
        result = handlerRet

\* Position of a stage in the trace of the request (0: it has not run).
At(stage) ==
    IF \E i \in 1..Len(trace) : trace[i] = stage
    THEN CHOOSE i \in 1..Len(trace) : trace[i] = stage
    ELSE 0

\* What checking response r against the contract must give.
CheckedAgainstContract(r, res) ==
    IF DEBUG /\ ContractViolated(r)
    THEN IsClientError(res) /\ res.made_by = "api_returns"
    ELSE res = r

\* C8: api composes the validators in the order validate input, invoke,
\* validate output.  The view function runs at most once and only after the
\* input stage; in strict mode never when the parameters violate the
\* schema; a response the input stage builds is returned as it is; every
\* response of the view function is checked against the 'returns' contract
\* before api returns it.
C8_ApiComposesInOrder ==
    (view.kind = "api" /\ Serving) =>
        /\ calls <= 1
        /\ calls = 1 => 0 < At("api_accepts") /\ At("api_accepts") < At("func")
        /\ (DEBUG /\ Violates) => calls = 0
        /\ Done =>
              /\ trace \in { <<"api", "api_accepts">>,
                             <<"api", "api_accepts", "api_returns", "func",
                               "api_returns:check">> }
              /\ calls = 0 =>
                    /\ result.made_by = "api_accepts"
                    /\ result = api_accepts(view.fields, Args(Plain(request), <<>>)).response
              /\ calls = 1 =>
                    /\ At("func") < At("api_returns:check")
                    /\ CheckedAgainstContract(handlerRet, result)

C8_Witness ==
    /\ view.kind = "api" /\ Done /\ DEBUG
    /\ Satisfies
    /\ calls = 1
    /\ handlerArg.request.class = "ValidatedRequest"
    /\ handlerRet.class = "JsonResponseAccepted"
    /\ ~InContract(handlerRet)
    /\ result.status_code = 400

\* The parsed body lacks a required key: it is no JSON object, or an object
\* without that key.
LacksKey(value, k) == value.jtype /= "object" \/ k \notin DOMAIN value.dict

BodyRefused ==
    \/ LoadsFails(request.raw_post_data)
    \/ \E i \in 1..Len(view.required_fields) :
          LacksKey(loads(request.raw_post_data), view.required_fields[i])

\* C9: validate_json_request returns a 400 response without invoking the
\* view function if the raw body is not valid JSON or the parsed value lacks
\* a required key (the message citing a missing key); otherwise it invokes
\* the view function exactly once, the parsed value being the argument
\* right after the request, and returns its response unchanged.  The flag
\* plays no part.
C9_JsonBodyValidated ==
    (view.kind = "validate_json_request" /\ Done) =>
        IF BodyRefused
        THEN /\ calls = 0
             /\ IsClientError(result)
             /\ ~LoadsFails(request.raw_post_data) =>
                   \E i \in 1..Len(view.required_fields) :
                      /\ LacksKey(loads(request.raw_post_data),
                                  view.required_fields[i])
                      /\ result.content.names = {view.required_fields[i]}
        ELSE /\ calls = 1
             /\ handlerArg =
                   Args(Plain(request), <<loads(request.raw_post_data)>>)
             /\ result = handlerRet

\* What the strict policy and the lenient policy look like from outside, for
\* the two validators: strict turns a failure into a 400 response of the
\* wrapper, lenient lets the view function's response through.
TreatedAs(strict) ==
    /\ (view.kind = "api_accepts" /\ Violates) =>
          IF strict
          THEN calls = 0 /\ IsClientError(result)
          ELSE calls = 1 /\ result = handlerRet
    /\ (view.kind = "api_returns" /\ ContractViolated(handlerRet)) =>
          IF strict
          THEN IsClientError(result) /\ result /= handlerRet
          ELSE result = handlerRet

\* C10 (as stated): the policy of a decorated view is selected by the value
\* settings.DEBUG had when the decorator was applied; changing the flag
\* afterwards does not change how later requests are treated.
C10_Original == Done => TreatedAs(view.debug)

\* C10 (amended): the policy is selected by the value settings.DEBUG has
\* while the request is served: the wrappers read the flag on every call, so
\* changing it after the decorator was applied changes how later requests
\* are treated.
C10_PolicyReadPerRequest == Done => TreatedAs(DEBUG)

C10_Witness ==
    /\ Done
    /\ view.kind = "api_accepts"
    /\ view.debug /\ ~DEBUG
    /\ Violates
    /\ calls = 1
    /\ result = handlerRet

\* C11: for a request whose method is neither GET nor POST, in both modes
\* and for every schema (with record-reference fields or not), api_accepts
\* validates no form and looks up no record, logs nothing, invokes the view
\* function exactly once with the original request object and returns its
\* response unchanged.
C11_OtherMethodsPassThrough ==
    (view.kind = "api_accepts" /\ Serving /\ ~HasParams) =>
        /\ pc = "call" /\ depth = 1 => effects = <<>> /\ calls = 0
        /\ ~(pc = "call" /\ depth = 1) =>
              /\ effects = <<>>
              /\ log = <<>>
              /\ arg = Args(Plain(request), <<>>)
        /\ Done =>
              /\ calls = 1
              /\ trace = <<"api_accepts", "func">>
              /\ handlerArg = Args(Plain(request), <<>>)
              /\ handlerArg.request.class = "HttpRequest"
              /\ result = handlerRet

C11_Witness ==
    /\ view.kind = "api_accepts" /\ Done /\ DEBUG
    /\ request.method = "PUT"
    /\ view.fields = <<Item("x", IntegerField(TRUE, {})),
                       Item("user", Model("User"))>>
    /\ "x" \notin DOMAIN request.GET
    /\ "user-id" \in DOMAIN request.GET
    /\ request.GET["user-id"] = Raw(Str(-1))
    /\ effects = <<>>
    /\ calls = 1
    /\ result = handlerRet

=============================================================================
